---- MODULE Spec2Model ----
(***************************************************************************)
(* A model of src/repository/git.go: the git synchronisation pipeline      *)
(* cloneGitRepository -> switchBranch -> (file edits) -> commitChanges ->  *)
(* pushChanges, over a local repository (reference store, index, working   *)
(* tree) and one remote ("origin").                                        *)
(*                                                                         *)
(* Commit hashes are the positions 1..Len(parent) of the commit objects;   *)
(* 0 is the zero hash / an absent reference.  File contents are small      *)
(* numbers, 0 meaning that the file does not exist.                        *)
(***************************************************************************)
EXTENDS Integers, Sequences, FiniteSets, TLC

\* Bounds of the model.
MaxCommits == 3
MaxRemoteOps == 2

Branches == {"main", "feat"}
DefaultBranch == "main"
Files == {"a.t", "b.m"}
\* the contents a file may be given; 0: the file does not exist
FileContents(f) == IF f = "a.t" THEN {1, 2} ELSE {0, 1}

VARIABLES
    cloned,          \* the *git.Repository handle exists (clone succeeded)
    parent,          \* commit objects: parent[c] is the parent hash of c
    tree,            \* commit objects: tree[c] is the file contents of c
    remoteHeads,     \* the remote's refs/heads/*
    localHeads,      \* the local refs/heads/*
    remoteTracking,  \* the local refs/remotes/origin/*
    HEAD,            \* the branch the local HEAD is a symbolic reference to
    idx,             \* the index (staging area)
    wt,              \* the working tree files
    tokenCalls,      \* number of tokens githubClient has handed out
    lastAuth,        \* the token of the last authenticated network call
    call             \* the last operation: its arguments and what it returned

vars == <<cloned, parent, tree, remoteHeads, localHeads,
          remoteTracking, HEAD, idx, wt, tokenCalls, lastAuth, call>>

repoVars == <<cloned, parent, tree, remoteHeads, localHeads,
              remoteTracking, HEAD, idx, wt>>

-----------------------------------------------------------------------------
(* Strings whose characters the code inspects are tuples of characters.    *)

RECURSIVE Join(_)
Join(cs) == IF cs = <<>> THEN "" ELSE Head(cs) \o Join(Tail(cs))

FileChars(f) == CASE f = "a.t" -> <<"a", ".", "t">>
                  [] f = "b.m" -> <<"b", ".", "m">>

\* The last call: the operation, its arguments (branch, flag, param,
\* patterns, title, body, footer), what went wrong around it (fault), and
\* what it returned and did: err and the fields the error message wraps,
\* of a failed clone, changed and commitID (the result of commitChanges), the
\* pattern a staging error names, the message committed, the refspecs
\* pushed, the token used and whether the network was reached.
NoCall == [op |-> "none", branch |-> "", flag |-> FALSE, err |-> "none",
           changed |-> FALSE, clean |-> FALSE, refSpecs |-> <<>>,
           msg |-> "", title |-> "", body |-> "", footer |-> "",
           fault |-> "none", auth |-> 0, net |-> FALSE,
           param |-> [present |-> FALSE, value |-> <<>>],
           patterns |-> <<>>, pattern |-> <<>>, commitID |-> 0, wraps |-> {}]

-----------------------------------------------------------------------------
(* Commit graph helpers.                                                   *)

RECURSIVE IsAncestor(_, _, _)
\* a is c or an ancestor of c in the commit graph par
IsAncestor(par, a, c) ==
    IF c = 0 THEN FALSE
    ELSE IF a = c THEN TRUE
    ELSE IsAncestor(par, a, par[c])

EmptyTree == [f \in Files |-> 0]
InitTree1 == [f \in Files |-> IF f = "a.t" THEN 1 ELSE 0]
InitTree2 == [f \in Files |-> IF f = "a.t" THEN 2 ELSE 0]

HeadHash == IF HEAD = "" THEN 0 ELSE localHeads[HEAD]
HeadTree == IF HeadHash = 0 THEN EmptyTree ELSE tree[HeadHash]

-----------------------------------------------------------------------------
Init ==
    /\ cloned = FALSE
    /\ parent = <<0, 1>>
    /\ tree = <<InitTree1, InitTree2>>
    /\ remoteHeads \in {[b \in Branches |-> IF b = "main" THEN 1 ELSE h] : h \in {0, 2}}
    /\ localHeads = [b \in Branches |-> 0]
    /\ remoteTracking = [b \in Branches |-> 0]
    /\ HEAD = ""
    /\ idx = EmptyTree
    /\ wt = EmptyTree
    /\ tokenCalls = 0
    /\ lastAuth = 0
    /\ call = NoCall

-----------------------------------------------------------------------------
(* An error of any operation ends the run: the caller returns it and makes *)
(* no further call on the repository.  A run whose context is done is      *)
(* followed no further either.                                             *)
Running == call.err = "none" /\ call.fault # "cancel"

(* What may go wrong in a remote operation: the token provider fails, the  *)
(* transport does, or the context is done (cancelled or timed out) when    *)
(* the operation is called.  For the local operations only the context.    *)
Faults == {"none", "token", "net", "cancel"}
LocalFaults == {"none", "cancel"}

(* TokenProvider: githubClient(ctx, options) returns (client, token, err). *)
(* Token n is the one handed out by the n-th call.                         *)

githubClient(fault, issued) ==
    IF fault = "cancel" THEN [err |-> "cancel", token |-> 0, issued |-> issued]
    ELSE IF fault = "token" THEN [err |-> "auth", token |-> 0, issued |-> issued]
    ELSE [err |-> "none", token |-> issued + 1, issued |-> issued + 1]

\* a token kept from the previous remote operation
BasicAuthCached(token) == IF lastAuth # 0 THEN lastAuth ELSE token

\* http.BasicAuth{Username: "x-access-token", Password: token}
BasicAuthPassword(token) == token

\* _, token, err := githubClient(...); if err != nil { return ... }
CloneAuthFailed(tok) == tok.err # "none"
PushAuthIgnored(tok) == FALSE
PushAuthFailed(tok) == tok.err # "none"

-----------------------------------------------------------------------------
(* cloneGitRepository                                                      *)

IsSpace(c) == c \in {" ", "\t", "\n", "\r"}

RECURSIVE TrimLeft(_)
TrimLeft(cs) == IF cs # <<>> /\ IsSpace(Head(cs)) THEN TrimLeft(Tail(cs)) ELSE cs

RECURSIVE TrimRight(_)
TrimRight(cs) ==
    IF cs # <<>> /\ IsSpace(cs[Len(cs)])
    THEN TrimRight(SubSeq(cs, 1, Len(cs) - 1)) ELSE cs

\* strings.TrimSpace
TrimSpace(cs) == TrimRight(TrimLeft(cs))

\* repo.Params["branch"]: absent, or present with a value
BranchParams ==
    { [present |-> FALSE, value |-> <<>>],
      [present |-> TRUE, value |-> <<>>],
      [present |-> TRUE, value |-> <<" ">>],
      [present |-> TRUE, value |-> <<" ", "\t">>],
      [present |-> TRUE, value |-> <<"m", "a", "i", "n">>],
      [present |-> TRUE, value |-> <<"f", "e", "a", "t">>],
      [present |-> TRUE, value |-> <<"f", "e", "a", "t", " ">>] }

\* the branch entry tested for emptiness only
CloneReferenceBlankKept(p) ==
    IF p.present /\ p.value # <<>>
    THEN "refs/heads/" \o Join(p.value)
    ELSE "HEAD"

\* the reference name handed to git.CloneOptions
CloneReference(p) ==
    IF p.present /\ TrimSpace(p.value) # <<>>
    THEN "refs/heads/" \o Join(p.value)
    ELSE "HEAD"

\* the remote branch a reference name resolves to, "" when there is none
ResolveRemote(ref, heads) ==
    IF ref = "HEAD" THEN DefaultBranch
    ELSE IF \E b \in Branches : ref = "refs/heads/" \o b /\ heads[b] # 0
         THEN CHOOSE b \in Branches : ref = "refs/heads/" \o b
         ELSE ""

\* fmt.Errorf("failed to create github client: %w", err)
CloneAuthErrorWraps == {"cause"}

\* fmt.Errorf("failed to clone git repository from %s to %s: %w",
\*            url, localPath, err)
CloneErrorWraps == {"url", "path", "cause"}

cloneGitRepository(p, fault) ==
    /\ Running
    /\ ~cloned
    /\ tokenCalls < MaxRemoteOps
    /\ LET ref == CloneReference(p)
           tok == githubClient(fault, tokenCalls)
           br  == ResolveRemote(ref, remoteHeads)
           c0  == [NoCall EXCEPT !.op = "clone", !.branch = ref, !.fault = fault,
                                 !.param = p]
       IN
       /\ tokenCalls' = tok.issued
       /\ IF CloneAuthFailed(tok)
          THEN /\ call' = [c0 EXCEPT !.err = tok.err,
                                     !.wraps = CloneAuthErrorWraps]
               /\ UNCHANGED <<repoVars, lastAuth>>
          ELSE /\ lastAuth' = BasicAuthPassword(tok.token)
               /\ IF fault = "net" \/ br = ""
                  THEN /\ call' = [c0 EXCEPT !.err = "clone", !.net = TRUE,
                                             !.auth = BasicAuthPassword(tok.token),
                                             !.wraps = CloneErrorWraps]
                       /\ UNCHANGED repoVars
                  ELSE /\ call' = [c0 EXCEPT !.net = TRUE,
                                             !.auth = BasicAuthPassword(tok.token)]
                       /\ cloned' = TRUE
                       /\ localHeads' = [b \in Branches |->
                                            IF b = br THEN remoteHeads[b] ELSE 0]
                       /\ remoteTracking' = remoteHeads
                       /\ HEAD' = br
                       /\ idx' = tree[remoteHeads[br]]
                       /\ wt' = tree[remoteHeads[br]]
                       /\ UNCHANGED <<parent, tree, remoteHeads>>

-----------------------------------------------------------------------------
(* switchBranch                                                            *)

\* Worktree.containsUnstagedChanges: a tracked file modified or deleted in
\* the working tree (an untracked file does not count)
ContainsUnstagedChanges(i, w) == \E f \in Files : i[f] # 0 /\ w[f] # i[f]

\* a new branch starts at the remote branch of its name when there is one
CheckoutCreateAtRemoteTip(heads, head, i, w, b, create) ==
    IF create /\ heads[b] # 0
    THEN [err |-> "checkout", heads |-> heads, head |-> head, idx |-> i, wt |-> w]
    ELSE LET hs == IF create
                   THEN [heads EXCEPT ![b] = IF remoteTracking[b] # 0
                                             THEN remoteTracking[b]
                                             ELSE heads[head]]
                   ELSE heads
         IN IF ContainsUnstagedChanges(i, w)
            THEN [err |-> "checkout", heads |-> hs, head |-> b, idx |-> i, wt |-> w]
            ELSE [err |-> "none", heads |-> hs, head |-> b,
                  idx |-> tree[hs[b]], wt |-> tree[hs[b]]]

\* HEAD is pointed at the branch only once the working tree has been reset
CheckoutKeepsHeadOnFailure(heads, head, i, w, b, create) ==
    IF create /\ heads[b] # 0
    THEN [err |-> "checkout", heads |-> heads, head |-> head, idx |-> i, wt |-> w]
    ELSE LET hs == IF create THEN [heads EXCEPT ![b] = heads[head]] ELSE heads
         IN IF ContainsUnstagedChanges(i, w)
            THEN [err |-> "checkout", heads |-> hs, head |-> head, idx |-> i, wt |-> w]
            ELSE [err |-> "none", heads |-> hs, head |-> b,
                  idx |-> tree[hs[b]], wt |-> tree[hs[b]]]

\* Worktree.Checkout(&CheckoutOptions{Branch, Create}) on the reference store
\* heads: creates the branch at HEAD's commit when asked to, points HEAD at
\* the branch, then resets index and working tree to the branch's commit
\* unless the working tree holds unstaged changes.
Checkout(heads, head, i, w, b, create) ==
    IF create /\ heads[b] # 0
    THEN [err |-> "checkout", heads |-> heads, head |-> head, idx |-> i, wt |-> w]
    ELSE LET hs == IF create THEN [heads EXCEPT ![b] = heads[head]] ELSE heads
         IN IF ContainsUnstagedChanges(i, w)
            THEN [err |-> "checkout", heads |-> hs, head |-> b, idx |-> i, wt |-> w]
            ELSE [err |-> "none", heads |-> hs, head |-> b,
                  idx |-> tree[hs[b]], wt |-> tree[hs[b]]]

\* the local branch looked up in place of the remote-tracking one
RemoteBranchRefLocal(b) == localHeads[b]

\* the hash of HEAD taken in place of the remote-tracking reference's
RemoteBranchRefAtHead(b) == IF remoteTracking[b] = 0 THEN 0 ELSE localHeads[HEAD]

\* gitRepo.Reference(refs/remotes/origin/<branch>, true): 0 when not found
RemoteBranchRef(b) == remoteTracking[b]

\* the context is the parameter _ of switchBranch: it is never looked at
switchBranch(b, create, fault) ==
    /\ Running
    /\ cloned
    /\ LET c0 == [NoCall EXCEPT !.op = "switch", !.branch = b, !.flag = create,
                                !.fault = fault]
       IN
       IF ~create /\ RemoteBranchRef(b) = 0
       THEN /\ call' = [c0 EXCEPT !.err = "resolve"]
            /\ UNCHANGED <<repoVars, tokenCalls, lastAuth>>
       ELSE LET stored == IF create THEN localHeads
                          ELSE [localHeads EXCEPT ![b] = RemoteBranchRef(b)]
                r == Checkout(stored, HEAD, idx, wt, b, create)
            IN /\ call' = [c0 EXCEPT !.err = r.err]
               /\ localHeads' = r.heads
               /\ HEAD' = r.head
               /\ idx' = r.idx
               /\ wt' = r.wt
               /\ UNCHANGED <<cloned, parent, tree, remoteHeads,
                              remoteTracking, tokenCalls, lastAuth>>

-----------------------------------------------------------------------------
(* Files are edited in the working tree between the operations.            *)

WriteFile(f, v) ==
    /\ Running
    /\ cloned
    /\ wt[f] # v
    /\ wt' = [wt EXCEPT ![f] = v]
    /\ call' = [NoCall EXCEPT !.op = "write"]
    /\ UNCHANGED <<cloned, parent, tree, remoteHeads, localHeads,
                   remoteTracking, HEAD, idx, tokenCalls, lastAuth>>

-----------------------------------------------------------------------------
(* commitChanges                                                           *)

\* the condition on the status inverted
IsCleanInverted(h, i, w) == ~(\A f \in Files : i[f] = h[f] /\ w[f] = i[f])

\* untracked files left out of the status
IsCleanIgnoringUntracked(h, i, w) ==
    \A f \in Files : i[f] = h[f] /\ (w[f] = i[f] \/ i[f] = 0)

\* Status.IsClean of workTree.Status(): no file differs between the HEAD
\* commit and the index, nor between the index and the working tree
\* (an untracked file makes the status not clean)
IsClean(h, i, w) == \A f \in Files : i[f] = h[f] /\ w[f] = i[f]

\* filepath.Match restricted to literals, '*' and '?'
RECURSIVE GlobMatch(_, _)
GlobMatch(pat, name) ==
    IF pat = <<>> THEN name = <<>>
    ELSE IF Head(pat) = "*"
         THEN \E k \in 0..Len(name) :
                 GlobMatch(Tail(pat), SubSeq(name, k + 1, Len(name)))
    ELSE IF Head(pat) = "?"
         THEN name # <<>> /\ GlobMatch(Tail(pat), Tail(name))
    ELSE name # <<>> /\ Head(name) = Head(pat) /\ GlobMatch(Tail(pat), Tail(name))

\* filepath.ErrBadPattern: a character class that is never closed
BadPattern(pat) ==
    \E k \in 1..Len(pat) :
        pat[k] = "[" /\ ~\E j \in (k + 1)..Len(pat) : pat[j] = "]"

\* the stage patterns of the model: everything, one file each, a pattern
\* that matches no file, and a malformed one
P_all == <<"*">>
P_m == <<"*", ".", "m">>
P_t == <<"*", ".", "t">>
P_none == <<"z", "*">>
P_bad == <<"[", "a">>
Patterns == {P_all, P_m, P_t, P_none, P_bad}

\* the file names each pattern matches
GlobNames == [pat \in Patterns |-> {f \in Files : GlobMatch(pat, FileChars(f))}]

\* the files of the working tree a glob pattern matches
Glob(pat, w) == {f \in GlobNames[pat] : w[f] # 0}

\* Worktree.AddGlob(pattern): fails on a malformed pattern and on a pattern
\* that matches no file; otherwise copies every matched file to the index
AddGlob(pat, i, w) ==
    IF BadPattern(pat) THEN [err |-> "stage", idx |-> i]
    ELSE LET files == Glob(pat, w)
         IN IF files = {} THEN [err |-> "stage", idx |-> i]
            ELSE [err |-> "none",
                  idx |-> [f \in Files |-> IF f \in files THEN w[f] ELSE i[f]]]

\* staging goes on after a pattern has failed
RECURSIVE StagePatternsKeepGoing(_, _, _, _)
StagePatternsKeepGoing(pats, k, i, w) ==
    IF k > Len(pats) THEN [err |-> "none", failed |-> 0, idx |-> i]
    ELSE LET r == AddGlob(pats[k], i, w)
             rest == StagePatternsKeepGoing(pats, k + 1, r.idx, w)
         IN IF r.err # "none" THEN [err |-> r.err, failed |-> k, idx |-> rest.idx]
            ELSE rest

\* for _, pattern := range options.Git.StagePatterns { AddGlob(pattern) }:
\* stops at the first pattern that fails; failed is its position, 0 if none
RECURSIVE StagePatterns(_, _, _, _)
StagePatterns(pats, k, i, w) ==
    IF k > Len(pats) THEN [err |-> "none", failed |-> 0, idx |-> i]
    ELSE LET r == AddGlob(pats[k], i, w)
         IN IF r.err # "none" THEN [err |-> r.err, failed |-> k, idx |-> r.idx]
            ELSE StagePatterns(pats, k + 1, r.idx, w)

\* the separator line written without its trailing space
CommitMessageBareSeparator(title, body, footer) ==
    title
    \o (IF Len(body) > 0 THEN "\n\n" \o body ELSE "")
    \o (IF Len(footer) > 0 THEN "\n\n--\n" \o footer ELSE "")

\* the commit message assembled in the strings.Builder
CommitMessage(title, body, footer) ==
    title
    \o (IF Len(body) > 0 THEN "\n\n" \o body ELSE "")
    \o (IF Len(footer) > 0 THEN "\n\n-- \n" \o footer ELSE "")

\* CommitOptions.All: every tracked file modified or deleted in the working
\* tree is staged by Worktree.Commit itself
AutoAddModifiedAndDeleted(i, w) ==
    [f \in Files |-> IF i[f] # 0 /\ w[f] # i[f] THEN w[f] ELSE i[f]]

\* Worktree.Commit(msg, &CommitOptions{All: all, ...}) on index i: the error
\* ("none" when a commit is created) and the index it leaves.  A commit that
\* changes nothing is created by the go-git releases of the time of the
\* Go 1.16 build and refused (ErrEmptyCommit) by later ones: rejectEmpty.
Commit(i, w, all, rejectEmpty, headTree) ==
    LET staged == IF all THEN AutoAddModifiedAndDeleted(i, w) ELSE i
    IN [err |-> IF rejectEmpty /\ staged = headTree THEN "commit" ELSE "none",
        idx |-> staged]

PatternLists ==
    { <<>>, <<P_all>>, <<P_m>>, <<P_t>>, <<P_t, P_bad>>, <<P_none, P_all>>,
      <<P_bad, P_all>> }

Titles == {"T", " T\n"}
Bodies == {"", "B"}
Footers == {"", "F"}

\* the options commitChanges is called with: every way of staging with one
\* message, and every message with one way of staging
UpdateOptions ==
    [patterns : PatternLists, all : BOOLEAN,
     title : {"T"}, body : {"B"}, footer : {"F"}]
    \cup [patterns : {<<P_all>>}, all : {FALSE},
          title : Titles, body : Bodies, footer : Footers]

\* the calls of commitChanges: every option with a live context under
\* either release of go-git, and one call with a context that is done
CommitCalls ==
    [o : UpdateOptions, rejectEmpty : BOOLEAN, fault : {"none"}]
    \cup [o : [patterns : {<<P_all>>}, all : {FALSE},
               title : {"T"}, body : {"B"}, footer : {"F"}],
          rejectEmpty : {FALSE}, fault : {"cancel"}]

\* the context is the parameter _ of commitChanges: it is never looked at.
\* The result is (bool, error): the hash of the commit is logged and not
\* returned, so commitID stays the zero hash.
commitChanges(o, rejectEmpty, fault) ==
    /\ Running
    /\ cloned
    /\ LET clean == IsClean(HeadTree, idx, wt)
           c0 == [NoCall EXCEPT !.op = "commit", !.clean = clean,
                                !.fault = fault]
           st == StagePatterns(o.patterns, 1, idx, wt)
           msg == CommitMessage(o.title, o.body, o.footer)
           c1 == [c0 EXCEPT !.title = o.title, !.body = o.body,
                            !.footer = o.footer, !.msg = msg]
           cm == Commit(st.idx, wt, o.all, rejectEmpty, HeadTree)
       IN
       \* the release of go-git matters only to a commit that changes nothing
       /\ rejectEmpty => (~clean /\ st.err = "none" /\ cm.idx = HeadTree)
       /\ IF clean
          THEN /\ call' = c0
               /\ UNCHANGED <<repoVars, tokenCalls, lastAuth>>
          ELSE IF st.err # "none"
          THEN /\ call' = [c0 EXCEPT !.err = st.err, !.patterns = o.patterns,
                                     !.pattern = o.patterns[st.failed]]
               /\ idx' = st.idx
               /\ UNCHANGED <<cloned, parent, tree, remoteHeads,
                              localHeads, remoteTracking, HEAD, wt, tokenCalls,
                              lastAuth>>
          ELSE IF cm.err # "none"
          THEN /\ call' = [c1 EXCEPT !.err = cm.err]
               /\ idx' = cm.idx
               /\ UNCHANGED <<cloned, parent, tree, remoteHeads,
                              localHeads, remoteTracking, HEAD, wt, tokenCalls,
                              lastAuth>>
          ELSE /\ Len(parent) < MaxCommits
               /\ call' = [c1 EXCEPT !.changed = TRUE]
               /\ parent' = Append(parent, HeadHash)
               /\ tree' = Append(tree, cm.idx)
               /\ localHeads' = [localHeads EXCEPT ![HEAD] = Len(parent) + 1]
               /\ idx' = cm.idx
               /\ UNCHANGED <<cloned, remoteHeads, remoteTracking,
                              HEAD, wt, tokenCalls, lastAuth>>

-----------------------------------------------------------------------------
(* pushChanges                                                             *)

\* the force marker never written
PushRefSpecNoMarker(b, force) == "refs/heads/" \o b \o ":refs/heads/" \o b

\* refSpec := fmt.Sprintf("refs/heads/%[1]s:refs/heads/%[1]s", branch),
\* prefixed with "+" when ForcePush is set
PushRefSpec(b, force) ==
    LET refSpec == "refs/heads/" \o b \o ":refs/heads/" \o b
    IN IF force THEN "+" \o refSpec ELSE refSpec

\* what a refspec string says: whether it forces, its source and its
\* destination branch; valid is FALSE for a string that is no such refspec
RefSpecs == [force : BOOLEAN, src : Branches, dst : Branches]
RefSpecString(r) ==
    (IF r.force THEN "+" ELSE "") \o "refs/heads/" \o r.src \o ":refs/heads/" \o r.dst
ParseRefSpec(s) ==
    IF \E r \in RefSpecs : RefSpecString(r) = s
    THEN [valid |-> TRUE, spec |-> CHOOSE r \in RefSpecs : RefSpecString(r) = s]
    ELSE [valid |-> FALSE, spec |-> [force |-> FALSE, src |-> "", dst |-> ""]]

\* the fast-forward check left out
PushRefNoFastForwardCheck(s, local, remote, par) ==
    LET p == ParseRefSpec(s)
        new == local[p.spec.src]
        old == remote[p.spec.dst]
    IN IF ~p.valid THEN [err |-> "push", dst |-> "", tip |-> 0]
       ELSE IF new = 0 \/ new = old
            THEN [err |-> "push", dst |-> p.spec.dst, tip |-> old]
       ELSE [err |-> "none", dst |-> p.spec.dst, tip |-> new]

\* a branch the remote already has is reported pushed but not updated
PushRefKeepsExisting(s, local, remote, par) ==
    LET p == ParseRefSpec(s)
        new == local[p.spec.src]
        old == remote[p.spec.dst]
    IN IF ~p.valid THEN [err |-> "push", dst |-> "", tip |-> 0]
       ELSE IF new = 0 \/ new = old
            THEN [err |-> "push", dst |-> p.spec.dst, tip |-> old]
       ELSE IF ~p.spec.force /\ old # 0 /\ ~IsAncestor(par, old, new)
            THEN [err |-> "push", dst |-> p.spec.dst, tip |-> old]
       ELSE [err |-> "none", dst |-> p.spec.dst, tip |-> IF old # 0 THEN old ELSE new]

\* Repository.PushContext with one refspec, once connected: the error and
\* the remote tip of the destination branch afterwards.  Nothing to update
\* (no such local branch, or the remote is already there) is the error
\* NoErrAlreadyUpToDate; without the force marker the remote tip has to be
\* an ancestor of the local tip.
PushRef(s, local, remote, par) ==
    LET p == ParseRefSpec(s)
        new == local[p.spec.src]
        old == remote[p.spec.dst]
    IN IF ~p.valid THEN [err |-> "push", dst |-> "", tip |-> 0]
       ELSE IF new = 0 \/ new = old
            THEN [err |-> "push", dst |-> p.spec.dst, tip |-> old]
       ELSE IF ~p.spec.force /\ old # 0 /\ ~IsAncestor(par, old, new)
            THEN [err |-> "push", dst |-> p.spec.dst, tip |-> old]
       ELSE [err |-> "none", dst |-> p.spec.dst, tip |-> new]

\* a push that fails takes the local branch back to the commit before
pushChangesRollback(b, force, fault) ==
    /\ Running
    /\ cloned
    /\ tokenCalls < MaxRemoteOps
    /\ LET refSpec == PushRefSpec(b, force)
           tok == githubClient(fault, tokenCalls)
           c0 == [NoCall EXCEPT !.op = "push", !.branch = b, !.flag = force,
                                !.fault = fault]
           c1 == [c0 EXCEPT !.net = TRUE, !.auth = BasicAuthPassword(tok.token),
                            !.refSpecs = <<refSpec>>]
           r == PushRef(refSpec, localHeads, remoteHeads, parent)
       IN
       /\ tokenCalls' = tok.issued
       /\ IF PushAuthFailed(tok)
          THEN /\ call' = [c0 EXCEPT !.err = tok.err]
               /\ UNCHANGED <<repoVars, lastAuth>>
          ELSE /\ lastAuth' = BasicAuthPassword(tok.token)
               /\ IF fault = "net" \/ r.err # "none"
                  THEN /\ call' = [c1 EXCEPT !.err = "push"]
                       /\ localHeads' = [localHeads EXCEPT
                                            ![b] = IF @ = 0 THEN 0 ELSE parent[@]]
                       /\ UNCHANGED <<cloned, parent, tree, remoteHeads,
                                      remoteTracking, HEAD, idx, wt>>
                  ELSE /\ call' = c1
                       /\ remoteHeads' = [remoteHeads EXCEPT ![r.dst] = r.tip]
                       /\ remoteTracking' = [remoteTracking EXCEPT ![r.dst] = r.tip]
                       /\ UNCHANGED <<cloned, parent, tree,
                                      localHeads, HEAD, idx, wt>>

pushChanges(b, force, fault) ==
    /\ Running
    /\ cloned
    /\ tokenCalls < MaxRemoteOps
    /\ LET refSpec == PushRefSpec(b, force)
           tok == githubClient(fault, tokenCalls)
           c0 == [NoCall EXCEPT !.op = "push", !.branch = b, !.flag = force,
                                !.fault = fault]
           c1 == [c0 EXCEPT !.net = TRUE, !.auth = BasicAuthPassword(tok.token),
                            !.refSpecs = <<refSpec>>]
           r == PushRef(refSpec, localHeads, remoteHeads, parent)
       IN
       /\ tokenCalls' = tok.issued
       /\ IF PushAuthFailed(tok)
          THEN /\ call' = [c0 EXCEPT !.err = tok.err]
               /\ UNCHANGED <<repoVars, lastAuth>>
          ELSE /\ lastAuth' = BasicAuthPassword(tok.token)
               /\ IF fault = "net" \/ r.err # "none"
                  THEN /\ call' = [c1 EXCEPT !.err = "push"]
                       /\ UNCHANGED repoVars
                  ELSE /\ call' = c1
                       /\ remoteHeads' = [remoteHeads EXCEPT ![r.dst] = r.tip]
                       /\ remoteTracking' = [remoteTracking EXCEPT ![r.dst] = r.tip]
                       /\ UNCHANGED <<cloned, parent, tree,
                                      localHeads, HEAD, idx, wt>>

-----------------------------------------------------------------------------
(* The remote is shared: somebody else may push a commit to a branch of it. *)

RemoteAdvance(b) ==
    /\ Running
    /\ remoteHeads[b] # 0
    /\ Len(parent) < MaxCommits
    /\ parent' = Append(parent, remoteHeads[b])
    /\ tree' = Append(tree, tree[remoteHeads[b]])
    /\ remoteHeads' = [remoteHeads EXCEPT ![b] = Len(parent) + 1]
    /\ call' = [NoCall EXCEPT !.op = "remote", !.branch = b]
    /\ UNCHANGED <<cloned, localHeads, remoteTracking, HEAD,
                   idx, wt, tokenCalls, lastAuth>>

-----------------------------------------------------------------------------
Next ==
    \/ \E p \in BranchParams, fault \in Faults : cloneGitRepository(p, fault)
    \/ \E b \in Branches, create \in BOOLEAN, fault \in LocalFaults :
          switchBranch(b, create, fault)
    \/ \E f \in Files : \E v \in FileContents(f) : WriteFile(f, v)
    \/ \E c \in CommitCalls : commitChanges(c.o, c.rejectEmpty, c.fault)
    \/ \E b \in Branches, force \in BOOLEAN, fault \in Faults :
          pushChanges(b, force, fault)
    \/ \E b \in Branches : RemoteAdvance(b)

Spec == Init /\ [][Next]_vars

-----------------------------------------------------------------------------
(* Properties.  In an action formula the primed call is the operation the  *)
(* step performs and the unprimed variables are the state it was called    *)
(* in.                                                                     *)

\* the working tree has nothing to commit: HEAD commit, index and files agree
TreeClean == \A f \in Files : idx[f] = HeadTree[f] /\ wt[f] = idx[f]

\* the step creates a commit object
CommitCreated == Len(parent') > Len(parent)

\* the remote branch b has commits the local branch b does not build on
Diverged(b) ==
    /\ localHeads[b] # 0
    /\ remoteHeads[b] # 0
    /\ ~IsAncestor(parent, remoteHeads[b], localHeads[b])

\* C1: commitChanges called on a clean working tree returns changed=false
\* and no error, creates no commit object and leaves the branch tips, HEAD,
\* the index and the working tree as they were, whatever the options.
C1_CleanTreeCommitsNothing ==
    [][ (call'.op = "commit" /\ TreeClean) =>
            /\ call'.changed = FALSE
            /\ call'.err = "none"
            /\ parent' = parent /\ tree' = tree
            /\ localHeads' = localHeads /\ HEAD' = HEAD
            /\ idx' = idx /\ wt' = wt ]_vars

C1_Witness ==
    /\ call.op = "commit" /\ call.clean /\ ~call.changed /\ call.err = "none"
    /\ TreeClean /\ HeadHash # 0

\* C2 as stated: commitChanges creates a commit if and only if the working
\* tree is not clean when it is called.
C2_CommitIffDirty ==
    [][ call'.op = "commit" => (CommitCreated <=> ~TreeClean) ]_vars

\* C2 amended: commitChanges creates a commit if and only if the working
\* tree is not clean when it is called and the call returns no error; it
\* reports changed=true exactly when it created one.
C2_CommitIffDirtyAndNoError ==
    [][ call'.op = "commit" =>
            /\ CommitCreated <=> (~TreeClean /\ call'.err = "none")
            /\ call'.changed <=> CommitCreated ]_vars

C2_Witness ==
    /\ call.op = "commit" /\ ~call.clean /\ call.changed /\ call.err = "none"
    /\ localHeads[HEAD] = Len(parent)

\* C3: switchBranch with CreateBranch=false for a branch that has no
\* remote-tracking reference fails resolving the reference and changes
\* neither the local references, nor HEAD, nor the index, nor the files.
C3_MissingRemoteBranchFails ==
    [][ (call'.op = "switch" /\ ~call'.flag /\ remoteTracking[call'.branch] = 0) =>
            /\ call'.err = "resolve"
            /\ localHeads' = localHeads /\ HEAD' = HEAD
            /\ idx' = idx /\ wt' = wt ]_vars

C3_Witness ==
    /\ call.op = "switch" /\ ~call.flag /\ call.err = "resolve"
    /\ remoteTracking[call.branch] = 0

\* C4: switchBranch with CreateBranch=false for a branch whose
\* remote-tracking reference exists stores the local branch at exactly that
\* hash, whether or not the checkout that follows succeeds; when the call
\* succeeds HEAD is on that branch, at that hash.
C4_LocalBranchPinnedToRemoteTip ==
    [][ (call'.op = "switch" /\ ~call'.flag /\ remoteTracking[call'.branch] # 0) =>
            /\ call'.err \in {"none", "checkout"}
            /\ localHeads'[call'.branch] = remoteTracking[call'.branch]
            /\ call'.err = "none" =>
                  /\ HEAD' = call'.branch
                  /\ localHeads'[HEAD'] = remoteTracking[call'.branch] ]_vars

C4_Witness ==
    /\ call.op = "switch" /\ ~call.flag /\ call.err = "none"
    /\ call.branch = "feat" /\ HEAD = "feat"
    /\ localHeads["feat"] = remoteTracking["feat"]
    /\ localHeads["main"] # 0 /\ localHeads["main"] # localHeads["feat"]

\* C5: after a pushChanges that succeeds, the remote branch exists and its
\* tip is the tip of the local branch of that name; so it is in every run
\* switchBranch(CreateBranch=true), commitChanges, pushChanges.
C5_PushedTipIsLocalTip ==
    (call.op = "push" /\ call.err = "none") =>
        /\ remoteHeads[call.branch] # 0
        /\ remoteHeads[call.branch] = localHeads[call.branch]

\* the branch feat was created at the tip of main, a commit was made on it,
\* and it was pushed
C5_Witness ==
    /\ call.op = "push" /\ call.err = "none" /\ call.branch = "feat"
    /\ HEAD = "feat" /\ localHeads["main"] = 1
    /\ localHeads["feat"] = Len(parent) /\ parent[localHeads["feat"]] = 1
    /\ remoteHeads["feat"] = localHeads["feat"]

ExpectedRefSpec(b, force) ==
    CASE b = "main" /\ ~force -> "refs/heads/main:refs/heads/main"
      [] b = "main" /\ force  -> "+refs/heads/main:refs/heads/main"
      [] b = "feat" /\ ~force -> "refs/heads/feat:refs/heads/feat"
      [] b = "feat" /\ force  -> "+refs/heads/feat:refs/heads/feat"

\* C7: a pushChanges that reaches the network pushes exactly one refspec,
\* refs/heads/b:refs/heads/b, with the force marker + in front if and only
\* if ForcePush is set.
C7_OneRefSpecPerPush ==
    (call.op = "push" /\ call.net) =>
        /\ Len(call.refSpecs) = 1
        /\ call.refSpecs[1] = ExpectedRefSpec(call.branch, call.flag)
        /\ ParseRefSpec(call.refSpecs[1]).valid
        /\ ParseRefSpec(call.refSpecs[1]).spec =
              [force |-> call.flag, src |-> call.branch, dst |-> call.branch]

C7_Witness ==
    /\ call.op = "push" /\ call.net /\ call.flag /\ call.err = "none"
    /\ call.refSpecs = << "+refs/heads/feat:refs/heads/feat" >>

\* C8: when the token provider fails in pushChanges, the call returns an
\* error without a network call, and the remote, the local references, the
\* commits, the index and the working tree stay as they were.
C8_TokenFailureStopsPush ==
    [][ (call'.op = "push" /\ call'.fault = "token") =>
            /\ call'.err = "auth"
            /\ ~call'.net /\ call'.refSpecs = <<>>
            /\ lastAuth' = lastAuth
            /\ UNCHANGED repoVars ]_vars

\* the clone and a commit had succeeded when the token fetch of the push failed
C8_Witness ==
    /\ call.op = "push" /\ call.err = "auth" /\ ~call.net
    /\ cloned /\ lastAuth = 1
    /\ localHeads[HEAD] = Len(parent) /\ remoteHeads[HEAD] # localHeads[HEAD]

\* C9: a remote operation that reaches the network authenticates with the
\* token that the token provider handed out in that same call, which is a
\* new token: not the one of any earlier remote operation.
C9_FreshTokenPerRemoteOperation ==
    [][ (call'.op \in {"clone", "push"} /\ call'.net) =>
            /\ tokenCalls' = tokenCalls + 1
            /\ call'.auth = tokenCalls'
            /\ call'.auth > lastAuth
            /\ lastAuth' = call'.auth ]_vars

C9_Witness ==
    /\ call.op = "push" /\ call.net /\ call.err = "none"
    /\ call.auth = 2 /\ lastAuth = 2 /\ tokenCalls = 2

\* C10: the commit message is the title, then "\n\n" and the body if the
\* body is not empty, then "\n\n-- \n" and the footer if the footer is not
\* empty; nothing is trimmed.
C10_CommitMessageLayout ==
    (call.op = "commit" /\ ~call.clean /\ call.err # "stage") =>
        /\ call.msg =
              CASE call.title = "T" /\ call.body = "" /\ call.footer = ""
                      -> "T"
                [] call.title = "T" /\ call.body = "B" /\ call.footer = ""
                      -> "T\n\nB"
                [] call.title = "T" /\ call.body = "" /\ call.footer = "F"
                      -> "T\n\n-- \nF"
                [] call.title = "T" /\ call.body = "B" /\ call.footer = "F"
                      -> "T\n\nB\n\n-- \nF"
                [] call.title = " T\n" /\ call.body = "" /\ call.footer = ""
                      -> " T\n"
                [] call.title = " T\n" /\ call.body = "B" /\ call.footer = ""
                      -> " T\n\n\nB"
                [] call.title = " T\n" /\ call.body = "" /\ call.footer = "F"
                      -> " T\n\n\n-- \nF"
                [] call.title = " T\n" /\ call.body = "B" /\ call.footer = "F"
                      -> " T\n\n\nB\n\n-- \nF"
        /\ Len(call.msg) = Len(call.title)
              + (IF call.body # "" THEN Len("\n\n") + Len(call.body) ELSE 0)
              + (IF call.footer # "" THEN Len("\n\n-- \n") + Len(call.footer) ELSE 0)

C10_Witness ==
    /\ call.op = "commit" /\ call.changed
    /\ call.title = "T" /\ call.body = "B" /\ call.footer = "F"
    /\ call.msg = "T\n\nB\n\n-- \nF"

\* a branch entry that is not empty and not made of white space only
NonBlank(cs) == \E k \in 1..Len(cs) : cs[k] \notin {" ", "\t", "\n", "\r"}

\* C11: clone resolves the reference to clone as refs/heads/<branch>, with
\* the branch entry of the parameter map as it was given, when the entry is
\* there and is not blank, and as HEAD when the entry is absent, empty or
\* made of white space only.
C11_CloneReferenceResolution ==
    call.op = "clone" =>
        /\ (call.param.present /\ NonBlank(call.param.value)) =>
              call.branch =
                 CASE call.param.value = <<"m", "a", "i", "n">> -> "refs/heads/main"
                   [] call.param.value = <<"f", "e", "a", "t">> -> "refs/heads/feat"
                   [] call.param.value = <<"f", "e", "a", "t", " ">>
                         -> "refs/heads/feat "
        /\ ~(call.param.present /\ NonBlank(call.param.value)) =>
              call.branch = "HEAD"
        /\ (call.err = "none" /\ call.branch = "HEAD") => HEAD = DefaultBranch
        /\ (call.err = "none" /\ call.branch # "HEAD") =>
              call.branch = "refs/heads/" \o HEAD

\* a branch entry of white space only has cloned the remote's default branch
C11_Witness ==
    /\ call.op = "clone" /\ call.err = "none" /\ cloned
    /\ call.param = [present |-> TRUE, value |-> <<" ", "\t">>]
    /\ call.branch = "HEAD" /\ HEAD = "main"

\* C12 as stated: on a dirty working tree a stage pattern that matches no
\* file is passed over, so that staging fails only for a malformed pattern.
C12_UnmatchedPatternIsNoOp ==
    [][ (call'.op = "commit" /\ ~TreeClean /\ call'.err = "stage") =>
            BadPattern(call'.pattern) ]_vars

\* pattern j of the list pats cannot be staged from the working tree w: it
\* is malformed or no file of w matches it
StageFails(pats, j, w) ==
    \/ BadPattern(pats[j])
    \/ \A f \in Files : w[f] # 0 => ~GlobMatch(pats[j], FileChars(f))

\* C13: when commitChanges fails staging, the error names the first pattern
\* of the list, in the configured order, that cannot be staged; the patterns
\* before it have been staged and stay staged, the patterns after it have
\* not been applied; no commit is created and the result is changed=false.
C13_StageErrorNamesFirstFailingPattern ==
    [][ (call'.op = "commit" /\ call'.err = "stage") =>
            /\ ~TreeClean
            /\ \E k \in 1..Len(call'.patterns) :
                  /\ call'.pattern = call'.patterns[k]
                  /\ StageFails(call'.patterns, k, wt)
                  /\ \A j \in 1..(k - 1) : ~StageFails(call'.patterns, j, wt)
                  /\ \A f \in Files :
                        idx'[f] =
                           IF \E j \in 1..(k - 1) :
                                 wt[f] # 0 /\ GlobMatch(call'.patterns[j], FileChars(f))
                           THEN wt[f] ELSE idx[f]
            /\ ~call'.changed
            /\ ~CommitCreated
            /\ localHeads' = localHeads /\ HEAD' = HEAD /\ wt' = wt ]_vars

\* the second pattern is malformed: the first has been staged, no commit
C13_Witness ==
    /\ call.op = "commit" /\ call.err = "stage" /\ ~call.changed
    /\ call.patterns = <<P_t, P_bad>> /\ call.pattern = P_bad
    /\ idx["a.t"] = wt["a.t"] /\ idx["a.t"] # HeadTree["a.t"]

\* C14 as stated: each of the four operations, called with a context that
\* is done, returns the context's error and has no effect on the repository.
C14_CancellationHonoured ==
    [][ (call'.op \in {"clone", "switch", "commit", "push"}
         /\ call'.fault = "cancel") =>
            /\ call'.err = "cancel"
            /\ UNCHANGED repoVars ]_vars

\* C15: a pushChanges that fails, on the token, on the transport or on a
\* rejected update, undoes nothing: the commits, the local branches (so the
\* tip that commitChanges produced), HEAD, the index and the working tree
\* are as before the call; the call asks for at most one token and hands
\* at most one refspec to one push, and none when the token is not obtained.
C15_FailedPushKeepsLocalCommit ==
    [][ (call'.op = "push" /\ call'.err # "none") =>
            /\ parent' = parent /\ tree' = tree
            /\ localHeads' = localHeads /\ HEAD' = HEAD
            /\ idx' = idx /\ wt' = wt
            /\ remoteTracking' = remoteTracking
            /\ tokenCalls' \in {tokenCalls, tokenCalls + 1}
            /\ Len(call'.refSpecs) = (IF call'.net THEN 1 ELSE 0)
            /\ call'.net <=> call'.err = "push" ]_vars

\* the push of the commit just made on feat was rejected, the remote feat
\* having another history: the commit is still the tip of the local feat
C15_Witness ==
    /\ call.op = "push" /\ call.err = "push" /\ call.fault = "none" /\ ~call.flag
    /\ call.branch = "feat" /\ HEAD = "feat"
    /\ localHeads["feat"] = Len(parent) /\ localHeads["feat"] > 2
    /\ remoteHeads["feat"] = 2
    /\ idx = tree[localHeads["feat"]] /\ wt = idx

\* C16 as stated: the error of a clone that fails on the token or on the
\* transport carries the remote URL, the local path and the resolved
\* reference name, together with its cause.
C16_CloneErrorCarriesUrlPathReference ==
    (call.op = "clone" /\ call.err \in {"auth", "clone"}) =>
        {"url", "path", "reference", "cause"} \subseteq call.wraps

\* C17 as stated: a commitChanges that creates a commit returns changed=true
\* together with the identifier of that commit, which is the tip of the
\* local branch after the call.
C17_ChangedWithCommitID ==
    (call.op = "commit" /\ call.changed) =>
        /\ call.commitID # 0
        /\ call.commitID = localHeads[HEAD]

\* C18 as stated: when the working tree is not clean, staging does not fail
\* and nothing ends up staged (the index after the call is the tree of the
\* HEAD commit), commitChanges fails with a commit error, returns
\* changed=false, creates no commit and leaves the branch tip where it was.
C18_NothingStagedIsCommitError ==
    [][ (call'.op = "commit" /\ ~TreeClean /\ call'.err # "stage"
         /\ idx' = HeadTree) =>
            /\ call'.err = "commit"
            /\ ~call'.changed
            /\ ~CommitCreated
            /\ localHeads' = localHeads ]_vars

\* C19: switchBranch with CreateBranch=true looks at the local repository
\* only: it leaves the remote-tracking references alone, never fails
\* resolving a reference, and succeeds exactly when there is no local branch
\* of that name yet and no tracked file has unstaged changes, whether or not
\* the remote has the branch; on success the new local branch is at the
\* commit HEAD was at before the call, and HEAD is on that branch.
C19_CreateBranchNeedsNoReference ==
    [][ (call'.op = "switch" /\ call'.flag) =>
            /\ remoteTracking' = remoteTracking
            /\ remoteHeads' = remoteHeads
            /\ call'.err \in {"none", "checkout"}
            /\ call'.err = "none" <=>
                  /\ localHeads[call'.branch] = 0
                  /\ ~\E f \in Files : idx[f] # 0 /\ wt[f] # idx[f]
            /\ call'.err = "none" =>
                  /\ localHeads'[call'.branch] = HeadHash
                  /\ HeadHash # 0
                  /\ HEAD' = call'.branch
                  /\ \A b \in Branches \ {call'.branch} :
                        localHeads'[b] = localHeads[b] ]_vars

\* feat was created at the tip of main although the remote has a branch
\* feat with another tip
C19_Witness ==
    /\ call.op = "switch" /\ call.flag /\ call.err = "none"
    /\ call.branch = "feat" /\ HEAD = "feat"
    /\ localHeads["feat"] = localHeads["main"] /\ localHeads["main"] = 1
    /\ remoteTracking["feat"] = 2 /\ remoteHeads["feat"] = 2

\* C20 as stated: when switchBranch with CreateBranch=false has stored the
\* local reference and the checkout fails, the call returns a checkout
\* error, the local branch stays at the remote-tracking hash and HEAD stays
\* where it was before the call.
C20_FailedCheckoutKeepsHead ==
    [][ (call'.op = "switch" /\ ~call'.flag /\ call'.err = "checkout") =>
            /\ localHeads'[call'.branch] = remoteTracking[call'.branch]
            /\ HEAD' = HEAD ]_vars

\* C20 amended: when switchBranch with CreateBranch=false has stored the
\* local reference and the checkout fails, the call returns a checkout
\* error and nothing is rolled back: the local branch stays at the
\* remote-tracking hash and HEAD has already been pointed at the branch,
\* while the index and the working tree are as before the call.
C20_FailedCheckoutKeepsPinnedReference ==
    [][ (call'.op = "switch" /\ ~call'.flag /\ call'.err = "checkout") =>
            /\ remoteTracking[call'.branch] # 0
            /\ localHeads'[call'.branch] = remoteTracking[call'.branch]
            /\ \A b \in Branches \ {call'.branch} : localHeads'[b] = localHeads[b]
            /\ HEAD' = call'.branch
            /\ idx' = idx /\ wt' = wt
            /\ \E f \in Files : idx[f] # 0 /\ wt[f] # idx[f] ]_vars

\* the checkout of feat failed on an edited a.t: the local feat has been
\* stored at the remote tip and HEAD is on it, with the index and the files
\* of main
C20_Witness ==
    /\ call.op = "switch" /\ ~call.flag /\ call.err = "checkout"
    /\ call.branch = "feat" /\ HEAD = "feat"
    /\ localHeads["feat"] = 2 /\ remoteTracking["feat"] = 2
    /\ localHeads["main"] = 1 /\ idx = tree[1] /\ wt # idx
====
